---- MODULE Spec2Model ----
(***************************************************************************)
(* Model of rss8.cjs: the Telegram-to-RSS feed refresh pipeline.           *)
(*                                                                         *)
(* The server is single-threaded JavaScript: the code between two awaits   *)
(* runs atomically, and promise continuations (microtasks) run before the  *)
(* next I/O or timer callback.  One action of the model is therefore one   *)
(* callback of the event loop (a request arriving, an upstream fetch or a  *)
(* media download settling, a timer firing) together with every            *)
(* continuation it resumes.                                                *)
(***************************************************************************)
EXTENDS Integers, Sequences, FiniteSets, TLC

VARIABLES
    rssCache,   \* rssCache (line 29): channel -> None or [xml |-> document]
    disk,       \* images/<channel>/<postNumber>/ : file name -> bytes
    req,        \* one record per inbound content request
    timer,      \* one record per startChannelTimer call (made by request h)
    run,        \* one record per owner: its processRssFeed invocation
    obs,        \* observer: what the environment did (calls, failures)
    budget,     \* failures and timer firings the environment may still inject
    store,      \* the sequential media store scenario (two downloadImage calls)
    san         \* the sanitizer scenario (sanitizeXmlText applied twice)

vars == <<rssCache, disk, req, timer, run, obs, budget, store, san>>

----------------------------------------------------------------------------
(* Bounds of the model *)

MaxReq == 2         \* inbound content requests over a behaviour
MaxUpFail == 9      \* upstream fetch failures over a behaviour
MaxDlFail == 3      \* media download failures over a behaviour
MaxUpOk == 2        \* upstream fetches answered with a document over a behaviour
MaxTicks == 1       \* timer firings (after the initial update) over a behaviour
MaxTokens == 4      \* pieces a text given to sanitizeXmlText is made of

(* Program constants *)

Retries == 3                \* retries = 3 (lines 103, 187, 301)
FetchDelay == 2000          \* delay = 2000 (lines 103, 187)
TickDelay == 1000           \* 1000 * Math.pow(2, attempt) (line 318)
ShortInterval == 60000      \* nextInterval = 60000 (lines 323, 330)
MinMinutes == 10            \* getRandomInterval (line 33)
MaxMinutes == 15            \* getRandomInterval (line 33)

Channels == {"abc", "xyz"}
Reqs == 1..MaxReq

RECURSIVE Pow2(_)
Pow2(n) == IF n = 0 THEN 1 ELSE 2 * Pow2(n - 1)

----------------------------------------------------------------------------
(* Pure helpers of the program *)

\* Mutant: the factor 60 of getRandomInterval is forgotten.
GetRandomIntervalSeconds(k) == (k + MinMinutes) * 1000

RandomFloor == 0..(MaxMinutes - MinMinutes)

\* getRandomInterval: k is Math.floor(Math.random() * (15 - 10 + 1)).
GetRandomInterval(k) == (k + MinMinutes) * 60 * 1000

\* Mutant: the exponent is the 1-based number of the failed attempt.
BackoffShifted(delay, attempt) == delay * Pow2(attempt + 1)

\* delay * Math.pow(2, attempt)
Backoff(delay, attempt) == delay * Pow2(attempt)

\* detectMimeType: the signature table in insertion order, first match wins.
Signatures ==
    << <<"image/jpeg", <<255, 216, 255>> >>,
       <<"image/png",  <<137, 80, 78, 71>> >>,
       <<"image/gif",  <<71, 73, 70, 56>> >>,
       <<"image/webp", <<82, 73, 70, 70>> >> >>

HasSignature(buffer, sig) ==
    \A i \in 1..Len(sig) : i <= Len(buffer) /\ buffer[i] = sig[i]

DetectMimeType(buffer) ==
    LET hits == {k \in 1..Len(Signatures) : HasSignature(buffer, Signatures[k][2])}
    IN  IF hits = {} THEN "image/jpeg"
        ELSE Signatures[CHOOSE k \in hits : \A j \in hits : k <= j][1]

GetExtFromMime(mimeType) ==
    CASE mimeType = "image/jpeg" -> ".jpg"
      [] mimeType = "image/png"  -> ".png"
      [] mimeType = "image/gif"  -> ".gif"
      [] mimeType = "image/webp" -> ".webp"
      [] OTHER -> ".jpg"

FileNameOf(ext) ==
    CASE ext = ".jpg"  -> "image.jpg"
      [] ext = ".png"  -> "image.png"
      [] ext = ".gif"  -> "image.gif"
      [] ext = ".webp" -> "image.webp"

FileNames == {"image.jpg", "image.png", "image.gif", "image.webp"}

\* extractPostNumber: link.match(/\/(\d+)$/), parseInt of the digits, else 0.
Digits == <<"0", "1", "2", "3", "4", "5", "6", "7", "8", "9">>
IsDigit(c) == \E d \in 1..10 : Digits[d] = c
DigitVal(c) == (CHOOSE d \in 1..10 : Digits[d] = c) - 1

RECURSIVE TrailingDigits(_)
TrailingDigits(link) ==
    IF link # <<>> /\ IsDigit(link[Len(link)])
    THEN TrailingDigits(SubSeq(link, 1, Len(link) - 1)) + 1
    ELSE 0

RECURSIVE ParseInt(_)
ParseInt(ds) ==
    IF ds = <<>> THEN 0
    ELSE 10 * ParseInt(SubSeq(ds, 1, Len(ds) - 1)) + DigitVal(ds[Len(ds)])

ExtractPostNumber(link) ==
    LET k == TrailingDigits(link)
    IN  IF k >= 1 /\ Len(link) > k /\ link[Len(link) - k] = "/"
        THEN ParseInt(SubSeq(link, Len(link) - k + 1, Len(link)))
        ELSE 0

----------------------------------------------------------------------------
(* sanitizeXmlText, lines 37-47.  A text is a sequence of characters.  To    *)
(* follow a character of the text into the result, the replacements work on  *)
(* sequences of [c |-> character, at |-> its place in the text]: what        *)
(* replaces a character stands at that character's place.                    *)

Mark(text) == [i \in 1..Len(text) |-> [c |-> text[i], at |-> i]]
Chars(s) == [i \in 1..Len(s) |-> s[i].c]
Places(s) == [i \in 1..Len(s) |-> s[i].at]
Chunk(rep, at) == [j \in 1..Len(rep) |-> [c |-> rep[j], at |-> at]]

Amp == <<"&", "a", "m", "p", ";">>
Lt == <<"&", "l", "t", ";">>
Gt == <<"&", "g", "t", ";">>
Quot == <<"&", "q", "u", "o", "t", ";">>
Apos == <<"&", "a", "p", "o", "s", ";">>

\* (amp;|lt;|gt;|quot;|apos;) of line 40
EntityTails == {Tail(Amp), Tail(Lt), Tail(Gt), Tail(Quot), Tail(Apos)}

\* The characters after place i of s spell tail.
FollowedBy(s, i, tail) ==
    /\ i + Len(tail) <= Len(s)
    /\ \A j \in 1..Len(tail) : s[i + j].c = tail[j]

\* Mutant: the lookahead of line 40 is dropped, every & is escaped.
IsBareAmpAlways(s, i) == s[i].c = "&"

\* /&(?!(amp;|lt;|gt;|quot;|apos;))/ matches at place i of s.
IsBareAmp(s, i) ==
    s[i].c = "&" /\ ~\E tail \in EntityTails : FollowedBy(s, i, tail)

\* .replace(/&(?!(amp;|lt;|gt;|quot;|apos;))/g, '&amp;'), line 40: the matches
\* are found in s, what is put in is not scanned again.
RECURSIVE ReplaceBareAmpFrom(_, _)
ReplaceBareAmpFrom(s, i) ==
    IF i > Len(s) THEN <<>>
    ELSE (IF IsBareAmp(s, i) THEN Chunk(Amp, s[i].at) ELSE <<s[i]>>)
            \o ReplaceBareAmpFrom(s, i + 1)

\* .replace(/ch/g, rep), lines 41-44
RECURSIVE ReplaceCharFrom(_, _, _, _)
ReplaceCharFrom(s, i, ch, rep) ==
    IF i > Len(s) THEN <<>>
    ELSE (IF s[i].c = ch THEN Chunk(rep, s[i].at) ELSE <<s[i]>>)
            \o ReplaceCharFrom(s, i + 1, ch, rep)

\* The characters of the model.  "NUL" stands for a code unit outside
\* [\x09\x0A\x0D\x20-\uD7FF\uE000-\uFFFD], " " for white space inside it.
IsXmlChar(c) == c # "NUL"
IsWhiteSpace(c) == c = " "

\* .replace(/[^\x09\x0A\x0D\x20-\uD7FF\uE000-\uFFFD]/g, ''), line 45
RECURSIVE RemoveInvalidFrom(_, _)
RemoveInvalidFrom(s, i) ==
    IF i > Len(s) THEN <<>>
    ELSE (IF IsXmlChar(s[i].c) THEN <<s[i]>> ELSE <<>>) \o RemoveInvalidFrom(s, i + 1)

\* .trim(), line 46
RECURSIVE TrimStart(_)
TrimStart(s) ==
    IF s # <<>> /\ IsWhiteSpace(s[1].c) THEN TrimStart(Tail(s)) ELSE s

RECURSIVE TrimEnd(_)
TrimEnd(s) ==
    IF s # <<>> /\ IsWhiteSpace(s[Len(s)].c)
    THEN TrimEnd(SubSeq(s, 1, Len(s) - 1))
    ELSE s

\* sanitizeXmlText on a marked text
SanitizeMarked(s) ==
    IF s = <<>> THEN <<>>
    ELSE LET s1 == ReplaceBareAmpFrom(s, 1)
             s2 == ReplaceCharFrom(s1, 1, "<", Lt)
             s3 == ReplaceCharFrom(s2, 1, ">", Gt)
             s4 == ReplaceCharFrom(s3, 1, "\"", Quot)
             s5 == ReplaceCharFrom(s4, 1, "'", Apos)
             s6 == RemoveInvalidFrom(s5, 1)
         IN  TrimEnd(TrimStart(s6))

SanitizeXmlText(text) == Chars(SanitizeMarked(Mark(text)))

----------------------------------------------------------------------------
(* The environment: upstream documents and remote media *)

\* A link is a sequence of characters; only its tail matters to the program.
LinkOf(n) == <<"t", "/", "c", "/", n>>

\* Raw documents telegram_rss may return.  "bad" is not parseable as XML,
\* "empty" parses but has no item element, so channel.item is undefined.
DocNames == {"bad", "empty", "two", "dup"}

RawDoc(d) ==
    CASE d = "bad"   -> [wellFormed |-> FALSE, title |-> "", item |-> <<>>]
      [] d = "empty" -> [wellFormed |-> TRUE, title |-> "T", item |-> <<>>]
      [] d = "two"   -> [wellFormed |-> TRUE, title |-> "T", item |->
            << [link |-> LinkOf("5"), image |-> "uJ", pubDate |-> "D1"],
               [link |-> LinkOf("9"), image |-> "", pubDate |-> ""] >>]
      [] d = "dup"   -> [wellFormed |-> TRUE, title |-> "", item |->
            << [link |-> LinkOf("s"), image |-> "uJ", pubDate |-> "bad"],
               [link |-> LinkOf("x"), image |-> "uP", pubDate |-> "D1"] >>]

\* The bytes a remote media URL serves.
UrlBytes(u) ==
    CASE u = "uJ" -> <<255, 216, 255, 1>>
      [] u = "uP" -> <<137, 80, 78, 71, 2, 2>>
      [] u = "uX" -> <<1, 2>>
Urls == {"uJ", "uP", "uX"}

DocKeys == UNION {{ExtractPostNumber(RawDoc(d).item[i].link) :
                i \in 1..Len(RawDoc(d).item)} : d \in DocNames}

UpErrors == {"E1", "E2"}      \* errors telegram_rss may reject with
DlErrors == {"D1", "D2"}      \* errors an https.get attempt may fail with

Owners == {<<"req", h>> : h \in Reqs} \cup {<<"tmr", h>> : h \in Reqs}
H(h) == <<"req", h>>
T(h) == <<"tmr", h>>

----------------------------------------------------------------------------
(* The media store on disk: images/<channel>/<postNumber>/<file> *)

\* fs.readdirSync(postDir): the names in the directory.
ReadDir(dir) == {f \in FileNames : dir[f] # <<>>}

\* existingFiles[0]: readdir promises no order; pref is the name listed first.
FirstFile(names, pref) == IF pref \in names THEN pref ELSE CHOOSE f \in names : TRUE

RelativePath(channel, postNumber, filename) ==
    <<"images", channel, ToString(postNumber), filename>>

\* downloadImage, lines 109-125: the data of a file already in the directory.
ExistingImage(dir, channel, postNumber, pref) ==
    LET existingFile == FirstFile(ReadDir(dir), pref)
        buffer == dir[existingFile]
    IN  [filename |-> existingFile,
         size |-> Len(buffer),
         mimeType |-> DetectMimeType(buffer),
         relativePath |-> RelativePath(channel, postNumber, existingFile)]

\* downloadImage, lines 140-157: the 'end' handler of a 200 response.
DownloadedImage(buffer, channel, postNumber) ==
    LET mimeType == DetectMimeType(buffer)
        filename == FileNameOf(GetExtFromMime(mimeType))
    IN  [filename |-> filename,
         size |-> Len(buffer),
         mimeType |-> mimeType,
         relativePath |-> RelativePath(channel, postNumber, filename)]

\* fs.writeFileSync(filepath, buffer)
WriteFile(dir, filename, buffer) == [dir EXCEPT ![filename] = buffer]

\* Mutant: the existing file is never found.
HasExistingNever(dir) == FALSE

\* downloadImage, line 110: the short-circuit on a non-empty directory.
HasExisting(dir) == ReadDir(dir) # {}

EmptyDir == [f \in FileNames |-> <<>>]

----------------------------------------------------------------------------
(* The retry loops *)

\* for (let attempt = 0; attempt < retries; attempt++), lines 128 and 188
LoopContinues(attempt, retries) == attempt < retries

\* Mutant: the last attempt is taken to be one later.
IsLastAttemptOffByOne(attempt, retries) == attempt = retries

\* if (attempt === retries - 1) throw error, lines 175 and 193
IsLastAttempt(attempt, retries) == attempt = retries - 1

\* Mutant: updateRss waits and retries after its last attempt too.
TickMayRetryOneMore(attempt, retries) == attempt < retries

\* if (attempt < retries - 1), line 316
TickMayRetry(attempt, retries) == attempt < retries - 1

\* setTimeout(() => updateRss(), nextInterval || 60000), line 330
ScheduleDelay(nextInterval) == IF nextInterval = 0 THEN ShortInterval ELSE nextInterval

----------------------------------------------------------------------------
(* processRssFeed *)

ServerUrl == "http://serverIP"
BuildTime == "now"     \* new Date().toUTCString() at line 218

\* isNaN(new Date(s).getTime()): the string is not a date
IsNaNDate(s) == s = "bad"

\* new Date(s).toUTCString(): the text "Invalid Date" for a string that is not
\* a date; no exception is thrown.
ToUTCString(s) == IF IsNaNDate(s) THEN "Invalid Date" ELSE s

\* lines 237-243: the enclosure of a stored image
LocalEnclosure(imageData) ==
    << [url |-> <<ServerUrl>> \o imageData.relativePath,
        type |-> imageData.mimeType,
        length |-> imageData.size] >>

\* lines 247-253: the fallback enclosure after a failed download
FallbackEnclosure(imageUrl) ==
    << [url |-> <<imageUrl>>, type |-> "image/jpeg", length |-> 0] >>

\* One entry of channel.item.map, lines 225-234, up to its first suspension:
\* no image, an image already on disk, or the first https.get in flight.
StartItem(channel, item, files, pref) ==
    LET postNumber == ExtractPostNumber(item.link)
        dir == files[channel][postNumber]
    IN  IF item.image = ""
        THEN [st |-> "done", attempt |-> 0, delay |-> 0, err |-> "", enclosure |-> <<>>]
        ELSE IF HasExisting(dir)
        THEN [st |-> "done", attempt |-> 0, delay |-> 0, err |-> "",
              enclosure |-> LocalEnclosure(ExistingImage(dir, channel, postNumber, pref))]
        ELSE [st |-> "get", attempt |-> 0, delay |-> 0, err |-> "", enclosure |-> <<>>]

\* lines 257-265: the output entry of a post
OutItem(item, st) ==
    [link |-> item.link,
     guid |-> item.link,
     pubDate |-> IF item.pubDate # "" THEN ToUTCString(item.pubDate) ELSE BuildTime,
     enclosure |-> st.enclosure,
     postNumber |-> ExtractPostNumber(item.link)]

\* items.sort((a, b) => b._postNumber - a._postNumber): stable, descending
RECURSIVE InsertDesc(_, _)
InsertDesc(sorted, x) ==
    IF sorted = <<>> THEN <<x>>
    ELSE IF sorted[Len(sorted)].postNumber >= x.postNumber THEN Append(sorted, x)
    ELSE Append(InsertDesc(SubSeq(sorted, 1, Len(sorted) - 1), x), sorted[Len(sorted)])

RECURSIVE SortDesc(_)
SortDesc(s) ==
    IF s = <<>> THEN <<>>
    ELSE InsertDesc(SortDesc(SubSeq(s, 1, Len(s) - 1)), s[Len(s)])

\* items.forEach(item => delete item._postNumber)
DropPostNumber(e) ==
    [link |-> e.link, guid |-> e.guid, pubDate |-> e.pubDate, enclosure |-> e.enclosure]

\* lines 213-221 and 268-283: the document built once every entry is resolved
BuildXml(channel, raw, items) ==
    LET sorted == SortDesc([i \in 1..Len(items) |-> OutItem(raw.item[i], items[i])])
    IN  [title |-> IF raw.title = "" THEN "Telegram Channel" ELSE raw.title,
         link |-> <<"https://t.me/", channel>>,
         pubDate |-> BuildTime,
         item |-> [i \in 1..Len(sorted) |-> DropPostNumber(sorted[i])]]

AllDone(items) == \A i \in 1..Len(items) : items[i].st = "done"

\* Mutant: processRssFeed returns the document without caching it.
CacheSetNothing(cache, channel, xml) == cache

\* rssCache.set(telegram_channel, {xml: newXml, ...}), lines 286-289
CacheSet(cache, channel, xml) == [cache EXCEPT ![channel] = <<[xml |-> xml]>>]

\* The run record of one processRssFeed invocation.
NoRun == [st |-> "none", ch |-> "", attempt |-> 0, delay |-> 0, doc |-> "",
          items |-> <<>>, err |-> "", xml |-> <<>>]

\* processRssFeed entry, lines 205-207 and 188-190: telegram_rss is invoked.
StartRun(channel) == [NoRun EXCEPT !.st = "fetch", !.ch = channel]

\* lines 209-234: the continuation after telegram_rss resolved with raw
\* document d: parse, then start every entry.
AfterFetch(r, d, files, pref) ==
    LET raw == RawDoc(d)
    IN  IF ~raw.wellFormed
        THEN [r EXCEPT !.st = "fail", !.doc = d, !.err = "ParseError"]
        ELSE IF raw.item = <<>>
        THEN [r EXCEPT !.st = "fail", !.doc = d, !.err = "TypeError"]
        ELSE [r EXCEPT !.st = "items", !.doc = d,
                       !.items = [i \in 1..Len(raw.item) |->
                                     StartItem(r.ch, raw.item[i], files, pref)]]

\* lines 266-291: once Promise.all resolved, build and return the document.
Resolve(r) ==
    IF r.st = "items" /\ AllDone(r.items)
    THEN [r EXCEPT !.st = "ok", !.xml = <<BuildXml(r.ch, RawDoc(r.doc), r.items)>>]
    ELSE r

\* Mutant: the cache is set from the entries as they stand, before Promise.all
\* resolved.
CacheAfterEarly(cache, r) ==
    IF r.st \in {"ok", "items"}
    THEN CacheSet(cache, r.ch, BuildXml(r.ch, RawDoc(r.doc), r.items))
    ELSE cache

\* lines 285-295: the cache after this step of the run: set on success only.
CacheAfter(cache, r) ==
    IF r.st = "ok" THEN CacheSet(cache, r.ch, r.xml[1]) ELSE cache

----------------------------------------------------------------------------
(* safeTelegramRss and downloadImage: one step of each retry loop *)

\* lines 192-200: telegram_rss rejected with e at this attempt.
SafeRssCatch(r, e) ==
    IF IsLastAttempt(r.attempt, Retries)
    THEN [r EXCEPT !.st = "fail", !.err = e]
    ELSE [r EXCEPT !.st = "fwait", !.delay = Backoff(FetchDelay, r.attempt)]

\* lines 188-190 after the wait of line 199: attempt++, then the loop test.  A
\* loop that ends without returning yields undefined, and result.replace
\* (line 210) throws.
SafeRssNext(r) ==
    IF LoopContinues(r.attempt + 1, Retries)
    THEN [r EXCEPT !.st = "fetch", !.attempt = r.attempt + 1, !.delay = 0]
    ELSE [r EXCEPT !.st = "fail", !.attempt = r.attempt + 1, !.delay = 0,
                   !.err = "TypeError"]

\* Mutant: a failed download leaves the entry without enclosure.
DownloadCatchDrop(it, imageUrl, e) ==
    IF it.attempt = Retries - 1
    THEN [it EXCEPT !.st = "done", !.err = e]
    ELSE [it EXCEPT !.st = "wait", !.delay = Backoff(FetchDelay, it.attempt)]

\* lines 174-182 and 244-254: the https.get of this attempt failed.  The error
\* of the last attempt is thrown, and processRssFeed falls back to the remote URL.
DownloadCatch(it, imageUrl, e) ==
    IF IsLastAttempt(it.attempt, Retries)
    THEN [it EXCEPT !.st = "done", !.err = e, !.enclosure = FallbackEnclosure(imageUrl)]
    ELSE [it EXCEPT !.st = "wait", !.delay = Backoff(FetchDelay, it.attempt)]

\* lines 128-131 after the wait of line 181: attempt++, then the loop test; the
\* directory is not read again.  A loop that ends without returning yields
\* undefined, imageData.relativePath throws and line 244 catches it.
DownloadNext(it, imageUrl) ==
    IF LoopContinues(it.attempt + 1, Retries)
    THEN [it EXCEPT !.st = "get", !.attempt = it.attempt + 1, !.delay = 0]
    ELSE [it EXCEPT !.st = "done", !.attempt = it.attempt + 1, !.delay = 0,
                    !.err = "TypeError", !.enclosure = FallbackEnclosure(imageUrl)]

\* lines 140-157 and 235-243: the response ended with status 200.
DownloadEnd(it, img) ==
    [it EXCEPT !.st = "done", !.enclosure = LocalEnclosure(img)]

----------------------------------------------------------------------------
(* startChannelTimer / updateRss *)

NoTimer == [st |-> "none", ch |-> "", attempt |-> 0, success |-> FALSE,
            nextInterval |-> 0, delay |-> 0]

\* lines 300-307: updateRss begins a tick and calls processRssFeed.
StartTick(channel) == [NoTimer EXCEPT !.st = "attempt", !.ch = channel]

\* Mutant: a tick that succeeded schedules no next tick.
TickSuccessStops(t, k) == [t EXCEPT !.st = "none", !.success = TRUE]

\* lines 308-313 and 330: processRssFeed returned.
TickSuccess(t, k) ==
    [t EXCEPT !.st = "idle", !.success = TRUE,
              !.nextInterval = GetRandomInterval(k),
              !.delay = ScheduleDelay(GetRandomInterval(k))]

\* Mutant: an exhausted tick is rescheduled after the long random interval.
TickCatchLong(t) ==
    IF TickMayRetry(t.attempt, Retries)
    THEN [t EXCEPT !.st = "backoff", !.delay = Backoff(TickDelay, t.attempt)]
    ELSE [t EXCEPT !.st = "idle", !.attempt = t.attempt + 1,
                   !.nextInterval = GetRandomInterval(0),
                   !.delay = ScheduleDelay(GetRandomInterval(0))]

\* lines 314-330: processRssFeed threw.
TickCatch(t) ==
    IF TickMayRetry(t.attempt, Retries)
    THEN [t EXCEPT !.st = "backoff", !.delay = Backoff(TickDelay, t.attempt)]
    ELSE [t EXCEPT !.st = "idle", !.attempt = t.attempt + 1,
                   !.nextInterval = ShortInterval,
                   !.delay = ScheduleDelay(ShortInterval)]

\* line 305 after the wait of line 320: attempt++, then the loop test.
TickNext(t) ==
    IF LoopContinues(t.attempt + 1, Retries) /\ ~t.success
    THEN [t EXCEPT !.st = "attempt", !.attempt = t.attempt + 1, !.delay = 0]
    ELSE [t EXCEPT !.st = "idle", !.attempt = t.attempt + 1,
                   !.delay = ScheduleDelay(t.nextInterval)]

----------------------------------------------------------------------------
(* The request handler *)

NoReq == [st |-> "new", ch |-> "", fetched |-> FALSE, status |-> 0,
          text |-> "", body |-> <<>>]

\* Mutant: the handler ignores the cache.
HandlerNeverUsesCache(cachedData) == FALSE

\* line 366: if (cachedData)
HandlerUsesCache(cachedData) == cachedData # <<>>

\* lines 367-370 and 376-379
Respond200(q, xml) == [q EXCEPT !.st = "done", !.status = 200, !.body = <<xml>>]

\* Mutant: the catch block sends nothing.
Respond500Never(q) == q

\* lines 381-385
Respond500(q) ==
    [q EXCEPT !.st = "done", !.status = 500, !.text = "Error generating RSS feed."]

----------------------------------------------------------------------------
(* The observer: invocations and failures as the environment sees them *)

\* The observer before any event.  Per run: upCalls, upErr, upOkAt, dlCalls,
\* dlErr, dlOkAt.  Per tick of a task: consec, hitThree, runs (processRssFeed
\* invocations), ups (telegram_rss invocations), runFails (failed
\* processRssFeed invocations).  tickNo: the ticks a task has begun, counted
\* up to 2.  last: the request the previous step answered with a freshly
\* fetched document, else 0.  after[h]: the request whose fresh answer
\* immediately preceded the arrival of request h for the same channel, else 0.
NoObs ==
    [upCalls |-> [o \in Owners |-> 0],
     upErr |-> [o \in Owners |-> ""],
     upOkAt |-> [o \in Owners |-> 0],
     dlCalls |-> [o \in Owners |-> <<>>],
     dlErr |-> [o \in Owners |-> <<>>],
     dlOkAt |-> [o \in Owners |-> <<>>],
     consec |-> [h \in Reqs |-> 0],
     hitThree |-> [h \in Reqs |-> FALSE],
     runs |-> [h \in Reqs |-> 0],
     ups |-> [h \in Reqs |-> 0],
     runFails |-> [h \in Reqs |-> 0],
     tickNo |-> [h \in Reqs |-> 0],
     last |-> 0,
     after |-> [h \in Reqs |-> 0]]

\* processRssFeed is invoked by owner o and invokes telegram_rss (line 190).
ObsStartRun(ob, o) ==
    LET ob1 == [ob EXCEPT !.upCalls[o] = 1, !.upErr[o] = "", !.upOkAt[o] = 0,
                          !.dlCalls[o] = <<>>, !.dlErr[o] = <<>>, !.dlOkAt[o] = <<>>]
    IN  IF o[1] = "tmr"
        THEN [ob1 EXCEPT !.runs[o[2]] = @ + 1, !.ups[o[2]] = @ + 1]
        ELSE ob1

\* updateRss begins a tick (lines 300-305).
ObsStartTick(ob, h) ==
    [ob EXCEPT !.consec[h] = 0, !.hitThree[h] = FALSE,
               !.runs[h] = 0, !.ups[h] = 0, !.runFails[h] = 0,
               !.tickNo[h] = IF @ < 2 THEN @ + 1 ELSE @]

\* safeTelegramRss invokes telegram_rss again after a wait (line 190).
ObsUpRetry(ob, o) ==
    IF o[1] = "tmr"
    THEN [ob EXCEPT !.upCalls[o] = @ + 1, !.ups[o[2]] = @ + 1]
    ELSE [ob EXCEPT !.upCalls[o] = @ + 1]

\* processRssFeed threw into updateRss (line 314).
ObsRunFail(ob, h) == [ob EXCEPT !.runFails[h] = @ + 1]

\* A step that is not a fresh answer to a request.
ObsStep(ob) == [ob EXCEPT !.last = 0]

\* Request h was answered with the document it fetched (line 379).
ObsFresh(ob, h) == [ob EXCEPT !.last = h]

\* Request h for channel ch arrives (line 338).
ObsArrive(ob, h, ch, rq) ==
    [ob EXCEPT !.last = 0,
               !.after[h] = IF ob.last # 0 /\ rq[ob.last].ch = ch THEN ob.last ELSE 0]

ObsUpFail(ob, o, e) ==
    LET n == ob.consec[o[2]] + 1
    IN  IF o[1] = "tmr"
        THEN [ob EXCEPT !.upErr[o] = e, !.consec[o[2]] = n,
                        !.hitThree[o[2]] = @ \/ n >= Retries]
        ELSE [ob EXCEPT !.upErr[o] = e]

ObsUpOk(ob, o, r) ==
    LET n == Len(r.items)
        ob1 == [ob EXCEPT !.upOkAt[o] = ob.upCalls[o],
                          !.dlCalls[o] = [i \in 1..n |-> IF r.items[i].st = "get" THEN 1 ELSE 0],
                          !.dlErr[o] = [i \in 1..n |-> ""],
                          !.dlOkAt[o] = [i \in 1..n |-> 0]]
    IN  IF o[1] = "tmr" THEN [ob1 EXCEPT !.consec[o[2]] = 0] ELSE ob1

----------------------------------------------------------------------------
(* What follows a step of a processRssFeed invocation *)

\* Mutant: the handler starts the task whether its fetch succeeded or failed.
HandlerContinuesStartsAnyway(h, r, ob) ==
    CASE r.st = "ok" ->
            /\ timer' = [timer EXCEPT ![h] = StartTick(r.ch)]
            /\ run' = [run EXCEPT ![H(h)] = r, ![T(h)] = StartRun(r.ch)]
            /\ req' = [req EXCEPT ![h] = Respond200(@, r.xml[1])]
            /\ obs' = ObsFresh(ObsStartRun(ObsStartTick(ob, h), T(h)), h)
      [] r.st = "fail" ->
            /\ timer' = [timer EXCEPT ![h] = StartTick(r.ch)]
            /\ run' = [run EXCEPT ![H(h)] = r, ![T(h)] = StartRun(r.ch)]
            /\ req' = [req EXCEPT ![h] = Respond500(@)]
            /\ obs' = ObsStartRun(ObsStartTick(ob, h), T(h))
      [] OTHER ->
            /\ run' = [run EXCEPT ![H(h)] = r]
            /\ obs' = ob
            /\ UNCHANGED <<req, timer>>

\* The handler's continuation, lines 373-385.
HandlerContinues(h, r, ob) ==
    CASE r.st = "ok" ->
            /\ timer' = [timer EXCEPT ![h] = StartTick(r.ch)]
            /\ run' = [run EXCEPT ![H(h)] = r, ![T(h)] = StartRun(r.ch)]
            /\ req' = [req EXCEPT ![h] = Respond200(@, r.xml[1])]
            /\ obs' = ObsFresh(ObsStartRun(ObsStartTick(ob, h), T(h)), h)
      [] r.st = "fail" ->
            /\ run' = [run EXCEPT ![H(h)] = r]
            /\ req' = [req EXCEPT ![h] = Respond500(@)]
            /\ obs' = ob
            /\ UNCHANGED timer
      [] OTHER ->
            /\ run' = [run EXCEPT ![H(h)] = r]
            /\ obs' = ob
            /\ UNCHANGED <<req, timer>>

\* updateRss's continuation, lines 307-330.
TimerContinues(h, r, ob, k) ==
    /\ run' = [run EXCEPT ![T(h)] = r]
    /\ obs' = IF r.st = "fail" THEN ObsRunFail(ob, h) ELSE ob
    /\ UNCHANGED req
    /\ timer' = CASE r.st = "ok" -> [timer EXCEPT ![h] = TickSuccess(@, k)]
                  [] r.st = "fail" -> [timer EXCEPT ![h] = TickCatch(@)]
                  [] OTHER -> timer

\* processRssFeed goes on from r0 as far as it can; its caller goes on if it
\* returned or threw.
Continue(o, r0, ob, k) ==
    \E r \in {Resolve(r0)} : \E ob1 \in {ObsStep(ob)} :
        /\ rssCache' = CacheAfter(rssCache, r)
        /\ IF o[1] = "req"
           THEN HandlerContinues(o[2], r, ob1)
           ELSE TimerContinues(o[2], r, ob1, k)

----------------------------------------------------------------------------
(* Initial state: the process has just started (lines 22-29) *)

\* What the environment does over one behaviour is one of these plans:
\*   - one request, and enough upstream failures to exhaust a tick;
\*   - one request, with media failures and timer firings;
\*   - several requests and no failure;
\*   - several requests, the upstream failures of one whole fetch and one
\*     answered fetch.
FaultPlans ==
    { [reqs |-> 1, upOk |-> MaxUpOk, upFail |-> MaxUpFail, dlFail |-> 0, ticks |-> 0],
      [reqs |-> 1, upOk |-> MaxUpOk, upFail |-> 0, dlFail |-> MaxDlFail,
       ticks |-> MaxTicks],
      [reqs |-> MaxReq, upOk |-> MaxUpOk, upFail |-> 0, dlFail |-> 0, ticks |-> 0],
      [reqs |-> MaxReq, upOk |-> 1, upFail |-> Retries, dlFail |-> 0, ticks |-> 0] }

\* The media store scenario: downloadImage(url, ch, key) called twice in a
\* row, the second call after the first returned.
NoStore == [phase |-> "off", call |-> 0, url |-> "", ch |-> "", key |-> 0,
            attempt |-> 0, delay |-> 0, err |-> "", gets |-> 0,
            getsFirst |-> 0, results |-> <<>>]

\* The sanitizer scenario: sanitizeXmlText(text), then sanitizeXmlText of the
\* result.
NoSan == [phase |-> "off", text |-> <<>>, once |-> <<>>, twice |-> <<>>,
          marks |-> <<>>]

Init ==
    /\ rssCache = [c \in Channels |-> <<>>]
    /\ disk = [c \in Channels |-> [n \in DocKeys |-> EmptyDir]]
    /\ req = [h \in Reqs |-> NoReq]
    /\ timer = [h \in Reqs |-> NoTimer]
    /\ run = [o \in Owners |-> NoRun]
    /\ obs = NoObs
    /\ budget \in FaultPlans
    /\ store = NoStore
    /\ san = NoSan

----------------------------------------------------------------------------
(* Actions: one per callback of the event loop *)

\* The environment uses one unit of budget f; a negative budget has no limit.
Spend(f) ==
    /\ budget[f] # 0
    /\ budget' = IF budget[f] > 0 THEN [budget EXCEPT ![f] = @ - 1] ELSE budget

\* The values of Math.random() and of the readdir order that matter to a step.
KSet(o) == IF o[1] = "tmr" THEN RandomFloor ELSE {0}
PrefSet(ch, d) ==
    LET raw == RawDoc(d)
        names == UNION {ReadDir(disk[ch][ExtractPostNumber(raw.item[i].link)]) :
                            i \in {j \in 1..Len(raw.item) : raw.item[j].image # ""}}
    IN  IF Cardinality(names) <= 1 THEN {"image.jpg"} ELSE names
PrefOf(o, d) == IF run[o].st = "fetch" THEN PrefSet(run[o].ch, d) ELSE {}

\* An inbound content request for channel ch arrives (lines 358-380).
Request(h, ch) ==
    /\ req[h].st = "new"
    /\ \A g \in Reqs : g < h => req[g].st # "new"
    /\ Spend("reqs")
    /\ IF HandlerUsesCache(rssCache[ch])
       THEN /\ req' = [req EXCEPT ![h] = Respond200([@ EXCEPT !.ch = ch], rssCache[ch][1].xml)]
            /\ obs' = ObsArrive(obs, h, ch, req)
            /\ UNCHANGED run
       ELSE /\ req' = [req EXCEPT ![h] = [@ EXCEPT !.st = "fetching", !.ch = ch,
                                                    !.fetched = TRUE]]
            /\ run' = [run EXCEPT ![H(h)] = StartRun(ch)]
            /\ obs' = ObsStartRun(ObsArrive(obs, h, ch, req), H(h))
    /\ UNCHANGED <<rssCache, disk, timer, store, san>>

\* telegram_rss rejects with error e.
TelegramRssFails(o, e) ==
    /\ run[o].st = "fetch"
    /\ Spend("upFail")
    /\ Continue(o, SafeRssCatch(run[o], e), ObsUpFail(obs, o, e), 0)
    /\ UNCHANGED <<disk, store, san>>

\* The wait of line 199 ends.
SafeRssBackoffDone(o) ==
    /\ run[o].st = "fwait"
    /\ LET r == SafeRssNext(run[o])
       IN  Continue(o, r, IF r.st = "fetch" THEN ObsUpRetry(obs, o) ELSE obs, 0)
    /\ UNCHANGED <<disk, budget, store, san>>

\* telegram_rss resolves with raw document d; pref is the file name readdir
\* lists first, k the value Math.random() gives should the tick end here.
TelegramRssReturns(o, d, pref, k) ==
    /\ run[o].st = "fetch"
    /\ pref \in PrefOf(o, d)
    /\ Spend("upOk")
    /\ LET r == AfterFetch(run[o], d, disk, pref)
       IN  Continue(o, r, ObsUpOk(obs, o, r), k)
    /\ UNCHANGED <<disk, store, san>>

ImageUrl(r, i) == RawDoc(r.doc).item[i].image
PostNumber(r, i) == ExtractPostNumber(RawDoc(r.doc).item[i].link)

\* The https.get of entry i answers 200 and ends (lines 131-157).
DownloadSucceeds(o, i, k) ==
    /\ run[o].st = "items"
    /\ i \in 1..Len(run[o].items)
    /\ run[o].items[i].st = "get"
    /\ LET r == run[o]
           buffer == UrlBytes(ImageUrl(r, i))
           img == DownloadedImage(buffer, r.ch, PostNumber(r, i))
       IN  /\ disk' = [disk EXCEPT ![r.ch][PostNumber(r, i)] =
                            WriteFile(@, img.filename, buffer)]
           /\ Continue(o, [r EXCEPT !.items[i] = DownloadEnd(@, img)],
                       [obs EXCEPT !.dlOkAt[o][i] = obs.dlCalls[o][i]], k)
    /\ UNCHANGED <<budget, store, san>>

\* The https.get of entry i fails with error e (status, error or timeout).
DownloadFails(o, i, e, k) ==
    /\ run[o].st = "items"
    /\ i \in 1..Len(run[o].items)
    /\ run[o].items[i].st = "get"
    /\ Spend("dlFail")
    /\ LET r == run[o]
       IN  Continue(o, [r EXCEPT !.items[i] = DownloadCatch(@, ImageUrl(r, i), e)],
                    [obs EXCEPT !.dlErr[o][i] = e], k)
    /\ UNCHANGED <<disk, store, san>>

\* The wait of line 181 ends.
DownloadBackoffDone(o, i, k) ==
    /\ run[o].st = "items"
    /\ i \in 1..Len(run[o].items)
    /\ run[o].items[i].st = "wait"
    /\ LET r == run[o]
           it == DownloadNext(r.items[i], ImageUrl(r, i))
       IN  Continue(o, [r EXCEPT !.items[i] = it],
                    IF it.st = "get" THEN [obs EXCEPT !.dlCalls[o][i] = @ + 1] ELSE obs, k)
    /\ UNCHANGED <<disk, budget, store, san>>

\* The wait of line 320 ends: the tick's next attempt, or the end of the loop.
TickBackoffDone(h) ==
    /\ timer[h].st = "backoff"
    /\ LET t == TickNext(timer[h])
       IN  /\ timer' = [timer EXCEPT ![h] = t]
           /\ IF t.st = "attempt"
              THEN /\ run' = [run EXCEPT ![T(h)] = StartRun(t.ch)]
                   /\ obs' = ObsStartRun(ObsStep(obs), T(h))
              ELSE /\ obs' = ObsStep(obs)
                   /\ UNCHANGED run
    /\ UNCHANGED <<rssCache, disk, req, budget, store, san>>

\* The timer of line 330 fires: updateRss runs again.
TimerFires(h) ==
    /\ timer[h].st = "idle"
    /\ Spend("ticks")
    /\ timer' = [timer EXCEPT ![h] = StartTick(timer[h].ch)]
    /\ run' = [run EXCEPT ![T(h)] = StartRun(timer[h].ch)]
    /\ obs' = ObsStartRun(ObsStartTick(ObsStep(obs), h), T(h))
    /\ UNCHANGED <<rssCache, disk, req, store, san>>

Next ==
    \/ \E h \in Reqs, ch \in Channels : Request(h, ch)
    \/ \E o \in Owners, e \in UpErrors : TelegramRssFails(o, e)
    \/ \E o \in Owners : SafeRssBackoffDone(o)
    \/ \E o \in Owners, d \in DocNames :
          \E pref \in PrefOf(o, d), k \in KSet(o) :
             TelegramRssReturns(o, d, pref, k)
    \/ \E o \in Owners, i \in 1..2 : \E k \in KSet(o) : DownloadSucceeds(o, i, k)
    \/ \E o \in Owners, i \in 1..2, e \in DlErrors :
          \E k \in KSet(o) : DownloadFails(o, i, e, k)
    \/ \E o \in Owners, i \in 1..2 : \E k \in KSet(o) : DownloadBackoffDone(o, i, k)
    \/ \E h \in Reqs : TickBackoffDone(h)
    \/ \E h \in Reqs : TimerFires(h)

Spec == Init /\ [][Next]_vars

----------------------------------------------------------------------------
(* The media store alone: two downloadImage calls in a row for one key *)

InitStore ==
    /\ rssCache = [c \in Channels |-> <<>>]
    /\ disk = [c \in Channels |-> [n \in DocKeys |-> EmptyDir]]
    /\ req = [h \in Reqs |-> NoReq]
    /\ timer = [h \in Reqs |-> NoTimer]
    /\ run = [o \in Owners |-> NoRun]
    /\ obs = NoObs
    /\ budget = [reqs |-> 0, upOk |-> 0, upFail |-> 0, dlFail |-> MaxDlFail, ticks |-> 0]
    /\ \E u \in Urls, c \in Channels, n \in DocKeys :
          store = [NoStore EXCEPT !.phase = "idle", !.url = u, !.ch = c, !.key = n]
    /\ san = NoSan

\* downloadImage is called, lines 103-131: the existing file's data, or the
\* first https.get.
StoreCall(pref) ==
    /\ store.phase = "idle"
    /\ store.call < 2
    /\ LET dir == disk[store.ch][store.key]
       IN  IF HasExisting(dir)
           THEN store' = [store EXCEPT !.call = @ + 1,
                              !.results = Append(@, ExistingImage(dir, store.ch,
                                                                  store.key, pref))]
           ELSE store' = [store EXCEPT !.call = @ + 1, !.phase = "get",
                              !.attempt = 0, !.gets = @ + 1]
    /\ UNCHANGED <<rssCache, disk, req, timer, run, obs, budget, san>>

\* The https.get answers 200 and ends, lines 131-157.
StoreGetOk ==
    /\ store.phase = "get"
    /\ LET buffer == UrlBytes(store.url)
           img == DownloadedImage(buffer, store.ch, store.key)
       IN  /\ disk' = [disk EXCEPT ![store.ch][store.key] =
                            WriteFile(@, img.filename, buffer)]
           /\ store' = [store EXCEPT !.phase = "idle", !.results = Append(@, img),
                            !.getsFirst = IF store.call = 1 THEN store.gets ELSE @]
    /\ UNCHANGED <<rssCache, req, timer, run, obs, budget, san>>

\* The https.get fails with error e, lines 174-182.
StoreGetFails(e) ==
    /\ store.phase = "get"
    /\ Spend("dlFail")
    /\ store' = IF IsLastAttempt(store.attempt, Retries)
                THEN [store EXCEPT !.phase = "threw", !.err = e]
                ELSE [store EXCEPT !.phase = "wait",
                                   !.delay = Backoff(FetchDelay, store.attempt)]
    /\ UNCHANGED <<rssCache, disk, req, timer, run, obs, san>>

\* The wait of line 181 ends, lines 128-131.
StoreBackoffDone ==
    /\ store.phase = "wait"
    /\ store' = IF LoopContinues(store.attempt + 1, Retries)
                THEN [store EXCEPT !.phase = "get", !.attempt = @ + 1, !.delay = 0,
                                   !.gets = @ + 1]
                ELSE [store EXCEPT !.phase = "threw", !.attempt = @ + 1, !.delay = 0,
                                   !.err = "TypeError"]
    /\ UNCHANGED <<rssCache, disk, req, timer, run, obs, budget, san>>

NextStore ==
    \/ \E pref \in {"image.jpg"} : StoreCall(pref)
    \/ StoreGetOk
    \/ \E e \in DlErrors : StoreGetFails(e)
    \/ StoreBackoffDone

SpecStore == InitStore /\ [][NextStore]_vars

----------------------------------------------------------------------------
(* The sanitizer alone: sanitizeXmlText(text), then sanitizeXmlText of that *)

\* The pieces the texts are made of: the five raw characters, the tails of
\* two entities, a letter, white space and an invalid character.
SanTokens ==
    { <<"&">>, <<"<">>, <<">">>, <<"\"">>, <<"'">>, Tail(Amp), Tail(Lt),
      <<"x">>, <<" ">>, <<"NUL">> }

RECURSIVE Flatten(_)
Flatten(ts) == IF ts = <<>> THEN <<>> ELSE Head(ts) \o Flatten(Tail(ts))

SanTexts == {Flatten(ts) : ts \in UNION {[1..n -> SanTokens] : n \in 0..MaxTokens}}

InitSan ==
    /\ rssCache = [c \in Channels |-> <<>>]
    /\ disk = [c \in Channels |-> [n \in DocKeys |-> EmptyDir]]
    /\ req = [h \in Reqs |-> NoReq]
    /\ timer = [h \in Reqs |-> NoTimer]
    /\ run = [o \in Owners |-> NoRun]
    /\ obs = NoObs
    /\ budget = [reqs |-> 0, upOk |-> 0, upFail |-> 0, dlFail |-> 0, ticks |-> 0]
    /\ store = NoStore
    /\ \E x \in SanTexts : san = [NoSan EXCEPT !.phase = "in", !.text = x]

\* sanitizeXmlText(text)
SanitizeCall ==
    /\ san.phase = "in"
    /\ san' = [san EXCEPT !.phase = "once",
                          !.once = SanitizeXmlText(san.text),
                          !.marks = Places(SanitizeMarked(Mark(san.text)))]
    /\ UNCHANGED <<rssCache, disk, req, timer, run, obs, budget, store>>

\* sanitizeXmlText of the result of the first call
SanitizeAgain ==
    /\ san.phase = "once"
    /\ san' = [san EXCEPT !.phase = "twice", !.twice = SanitizeXmlText(san.once)]
    /\ UNCHANGED <<rssCache, disk, req, timer, run, obs, budget, store>>

NextSan == SanitizeCall \/ SanitizeAgain

SpecSan == InitSan /\ [][NextSan]_vars

----------------------------------------------------------------------------
(* The server over an unbounded time: timers that are set do fire *)

\* What the environment does over one behaviour that never ends: after one
\* request any number of answered fetches and of timer firings, with one
\* upstream failure or one download failure.
LivePlans ==
    { [reqs |-> 1, upOk |-> -1, upFail |-> 1, dlFail |-> 0, ticks |-> -1],
      [reqs |-> 1, upOk |-> -1, upFail |-> 0, dlFail |-> 1, ticks |-> -1] }

InitLive ==
    /\ rssCache = [c \in Channels |-> <<>>]
    /\ disk = [c \in Channels |-> [n \in DocKeys |-> EmptyDir]]
    /\ req = [h \in Reqs |-> NoReq]
    /\ timer = [h \in Reqs |-> NoTimer]
    /\ run = [o \in Owners |-> NoRun]
    /\ obs = NoObs
    /\ budget \in LivePlans
    /\ store = NoStore
    /\ san = NoSan

\* The setTimeout callbacks of request h and of the task it starts: the waits
\* of lines 181, 199 and 320 and the timer of line 330.
TimersOf(h) ==
    \/ SafeRssBackoffDone(H(h))
    \/ SafeRssBackoffDone(T(h))
    \/ \E i \in 1..2 : DownloadBackoffDone(H(h), i, 0)
    \/ \E i \in 1..2, k \in RandomFloor : DownloadBackoffDone(T(h), i, k)
    \/ TickBackoffDone(h)
    \/ TimerFires(h)

SpecLive ==
    /\ InitLive
    /\ [][Next]_vars
    /\ \A h \in Reqs : WF_vars(TimersOf(h))

\* What the environment does while requests are served: one request with the
\* upstream failures of one whole fetch; one request with the failures of one
\* whole download and a timer firing; two requests without a failure.
ServePlans ==
    { [reqs |-> 1, upOk |-> 2, upFail |-> Retries, dlFail |-> 0, ticks |-> 0],
      [reqs |-> 1, upOk |-> 2, upFail |-> 0, dlFail |-> Retries, ticks |-> 1],
      [reqs |-> 2, upOk |-> 2, upFail |-> 0, dlFail |-> 0, ticks |-> 0] }

InitServe ==
    /\ rssCache = [c \in Channels |-> <<>>]
    /\ disk = [c \in Channels |-> [n \in DocKeys |-> EmptyDir]]
    /\ req = [h \in Reqs |-> NoReq]
    /\ timer = [h \in Reqs |-> NoTimer]
    /\ run = [o \in Owners |-> NoRun]
    /\ obs = NoObs
    /\ budget \in ServePlans
    /\ store = NoStore
    /\ san = NoSan

SpecServe == InitServe /\ [][Next]_vars /\ \A h \in Reqs : WF_vars(TimersOf(h))

----------------------------------------------------------------------------
(* Properties *)

Active(o) == run[o].st \in {"fetch", "fwait", "items"}

\* C1: for every channel at most one processRssFeed invocation is in flight.
C1_OneRefreshInFlight ==
    \A c \in Channels :
        Cardinality({o \in Owners : Active(o) /\ run[o].ch = c}) <= 1

\* C2: for every channel at most one updateRss loop (scheduled task) exists.
C2_OneScheduledTask ==
    \A c \in Channels :
        Cardinality({h \in Reqs : timer[h].st # "none" /\ timer[h].ch = c}) <= 1

\* Every entry of raw document d is in the built document x, and every entry
\* with an image has its enclosure.
CompleteDoc(d, x) ==
    /\ Len(x.item) = Len(RawDoc(d).item)
    /\ \A i \in 1..Len(RawDoc(d).item) :
          \E j \in 1..Len(x.item) :
             /\ x.item[j].link = RawDoc(d).item[i].link
             /\ RawDoc(d).item[i].image # "" => x.item[j].enclosure # <<>>

\* C3: the cache entry of a channel changes only in the step in which a
\* refresh of that channel completes, and then to that refresh's complete
\* document; a refresh that fails leaves the cache as it was.
C3_CacheAtomic ==
    [][ /\ \A c \in Channels :
              rssCache'[c] # rssCache[c] =>
                 \E o \in Owners :
                    /\ Active(o) /\ run[o].ch = c
                    /\ run'[o].st = "ok"
                    /\ rssCache'[c] = <<[xml |-> run'[o].xml[1]]>>
                    /\ CompleteDoc(run'[o].doc, run'[o].xml[1])
        /\ \A o \in Owners :
              (Active(o) /\ run'[o].st = "fail") => rssCache' = rssCache ]_vars

\* C3 witness: a refresh has failed while the channel had a cache entry.
C3_Witness ==
    \E o \in Owners : run[o].st = "fail" /\ rssCache[run[o].ch] # <<>>

\* C4 as claimed: of the requests for one channel only the first one invokes
\* processRssFeed.
C4_OnlyFirstRequestFetches ==
    \A g, h \in Reqs :
        (g < h /\ req[g].st # "new" /\ req[h].st # "new" /\ req[g].ch = req[h].ch)
            => ~req[h].fetched

\* C4 amended: a request invokes processRssFeed exactly when the cache holds
\* no entry for its channel when it is handled; otherwise it is answered at
\* once with the cached document and no upstream fetch is invoked.
C4_FetchIffNoEntry ==
    [][ \A h \in Reqs :
           (req[h].st = "new" /\ req'[h].st # "new") =>
              IF rssCache[req'[h].ch] # <<>>
              THEN /\ ~req'[h].fetched
                   /\ req'[h].st = "done" /\ req'[h].status = 200
                   /\ req'[h].body = <<rssCache[req'[h].ch][1].xml>>
                   /\ run' = run
                   /\ obs'.upCalls = obs.upCalls
              ELSE /\ req'[h].fetched
                   /\ req'[h].st = "fetching"
                   /\ run'[H(h)].st = "fetch"
                   /\ obs'.upCalls[H(h)] = 1 ]_vars

\* C4 witness: a request has been answered from the cache.
C4_Witness ==
    \E h \in Reqs : req[h].st = "done" /\ ~req[h].fetched /\ req[h].status = 200

\* C5: in safeTelegramRss and downloadImage the wrapped operation is invoked
\* at most Retries times and not again after it succeeded; when every
\* invocation failed, the error the caller gets is the one of the last.
C5_RetryLoops ==
    \A o \in Owners :
        /\ obs.upCalls[o] <= Retries
        /\ obs.upOkAt[o] # 0 => obs.upCalls[o] = obs.upOkAt[o]
        /\ (run[o].st = "fail" /\ obs.upOkAt[o] = 0) =>
              /\ obs.upCalls[o] = Retries
              /\ run[o].err \in UpErrors
              /\ run[o].err = obs.upErr[o]
        /\ \A i \in 1..Len(obs.dlCalls[o]) :
              /\ obs.dlCalls[o][i] <= Retries
              /\ obs.dlOkAt[o][i] # 0 => obs.dlCalls[o][i] = obs.dlOkAt[o][i]
              /\ (run[o].items[i].st = "done" /\ obs.dlCalls[o][i] > 0
                    /\ obs.dlOkAt[o][i] = 0) =>
                    /\ obs.dlCalls[o][i] = Retries
                    /\ run[o].items[i].err \in DlErrors
                    /\ run[o].items[i].err = obs.dlErr[o][i]

\* C5 witness: safeTelegramRss has thrown after Retries failed invocations.
C5_Witness ==
    \E o \in Owners :
        run[o].st = "fail" /\ obs.upOkAt[o] = 0 /\ obs.upCalls[o] = Retries

\* C6: a tick whose last processRssFeed returned schedules the next tick after
\* 10 to 15 minutes; a tick whose last processRssFeed threw schedules it after
\* exactly one minute.
C6_TickDelay ==
    \A h \in Reqs :
        timer[h].st = "idle" =>
            /\ run[T(h)].st \in {"ok", "fail"}
            /\ run[T(h)].st = "ok" =>
                  /\ timer[h].success
                  /\ timer[h].delay >= MinMinutes * 60000
                  /\ timer[h].delay <= MaxMinutes * 60000
            /\ run[T(h)].st = "fail" =>
                  /\ ~timer[h].success
                  /\ timer[h].delay = ShortInterval

\* C6 witness: a successful tick has scheduled the next one after 15 minutes.
C6_Witness ==
    \E h \in Reqs :
        timer[h].st = "idle" /\ run[T(h)].st = "ok" /\ timer[h].delay = MaxMinutes * 60000

\* C7 as claimed: a tick that saw 3 consecutive upstream failures ends
\* exhausted, with the next tick after the short interval.
C7_ThreeFailuresExhaust ==
    \A h \in Reqs :
        (timer[h].st = "idle" /\ obs.hitThree[h]) =>
            (~timer[h].success /\ timer[h].delay = ShortInterval)

\* C7 amended: once the upstream fetch has failed Retries * Retries
\* consecutive times in a tick, the tick has ended exhausted and the next tick
\* is scheduled after exactly the short interval.
C7_NineFailuresExhaust ==
    \A h \in Reqs :
        obs.consec[h] = Retries * Retries =>
            /\ timer[h].st = "idle"
            /\ ~timer[h].success
            /\ timer[h].delay = ShortInterval

\* C7 witness: the upstream fetch has failed 9 consecutive times in a tick.
C7_Witness == \E h \in Reqs : obs.consec[h] = Retries * Retries

\* C8: a post directory never holds more than one file.
C8_OneFilePerKey ==
    \A c \in Channels, n \in DocKeys : Cardinality(ReadDir(disk[c][n])) <= 1

\* C9 as claimed: two calls in a row make exactly one network fetch in total.
C9_ExactlyOneFetch ==
    Len(store.results) = 2 => store.gets = 1

\* C9 amended: the second of two calls in a row makes no network fetch, so
\* the fetches in total are those of the first call, between 1 and Retries,
\* and it returns the size, content type and relative path of the first.
C9_SecondCallNoFetch ==
    Len(store.results) = 2 =>
        /\ store.gets = store.getsFirst
        /\ store.getsFirst \in 1..Retries
        /\ store.results[2].size = store.results[1].size
        /\ store.results[2].mimeType = store.results[1].mimeType
        /\ store.results[2].relativePath = store.results[1].relativePath

\* C9 witness: both calls have returned, the first after a retry.
C9_Witness == Len(store.results) = 2 /\ store.getsFirst = 2

\* Entry i of run o has failed on all its download attempts.
DownloadGaveUp(o, i) ==
    /\ run[o].items[i].st = "done"
    /\ obs.dlCalls[o][i] = Retries
    /\ obs.dlOkAt[o][i] = 0

\* The enclosure of a stored file of post directory dir.
StoredEnclosures(dir, c, n) ==
    {LocalEnclosure(ExistingImage(dir, c, n, f)) : f \in ReadDir(dir)}

\* C10: a download that failed on all its retries does not fail the refresh:
\* the run completes as soon as every entry is resolved, the document has
\* every post, the failed post with the remote URL, type image/jpeg and
\* length 0, every other post with its own enclosure.
C10_FallbackOnFailedDownload ==
    \A o \in Owners :
        /\ run[o].st = "items" => ~AllDone(run[o].items)
        /\ run[o].st = "fail" => run[o].items = <<>>
        /\ run[o].st = "ok" =>
              LET raw == RawDoc(run[o].doc)
                  x == run[o].xml[1]
                  c == run[o].ch
              IN  /\ Len(x.item) = Len(raw.item)
                  /\ \A i \in 1..Len(raw.item) :
                        \E j \in 1..Len(x.item) :
                           /\ x.item[j].link = raw.item[i].link
                           /\ x.item[j].enclosure =
                                 run[o].items[i].enclosure
                           /\ IF raw.item[i].image = ""
                              THEN x.item[j].enclosure = <<>>
                              ELSE IF DownloadGaveUp(o, i)
                              THEN x.item[j].enclosure =
                                      <<[url |-> <<raw.item[i].image>>,
                                         type |-> "image/jpeg", length |-> 0]>>
                              ELSE x.item[j].enclosure \in
                                      StoredEnclosures(
                                         disk[c][ExtractPostNumber(raw.item[i].link)],
                                         c, ExtractPostNumber(raw.item[i].link))

\* C10 witness: a refresh has completed with one post's download failed on
\* all retries and another post's image downloaded.
C10_Witness ==
    \E o \in Owners :
        /\ run[o].st = "ok"
        /\ \E i, j \in 1..Len(run[o].items) :
              /\ DownloadGaveUp(o, i)
              /\ obs.dlOkAt[o][j] > 0

----------------------------------------------------------------------------
(* Normalization: the entries of the built document *)

\* The place in raw document raw of the entry with this link.
RawIndex(raw, link) == CHOOSE i \in 1..Len(raw.item) : raw.item[i].link = link

\* The entries of x are in descending post number, entries of equal post
\* number in their order in raw.
OrderedDesc(raw, x) ==
    \A j1, j2 \in 1..Len(x.item) :
        j1 < j2 =>
            LET n1 == ExtractPostNumber(x.item[j1].link)
                n2 == ExtractPostNumber(x.item[j2].link)
            IN  /\ n1 >= n2
                /\ n1 = n2 => RawIndex(raw, x.item[j1].link) < RawIndex(raw, x.item[j2].link)

\* C11: for every well-formed raw document with N entries, N >= 0,
\* processRssFeed succeeds, and the document it builds has exactly N entries
\* in descending post number, ties in their original order.
C11_NormalizationTotal ==
    \A o \in Owners :
        (run[o].doc # "" /\ RawDoc(run[o].doc).wellFormed /\ run[o].st # "items") =>
            /\ run[o].st = "ok"
            /\ Len(run[o].xml[1].item) = Len(RawDoc(run[o].doc).item)
            /\ OrderedDesc(RawDoc(run[o].doc), run[o].xml[1])

\* C12: an entry whose publish date cannot be parsed gets the build timestamp
\* of the document as its publish date, and the document is still produced.
C12_BadDateGetsBuildTime ==
    \A o \in Owners :
        /\ (run[o].st = "fail" /\ run[o].doc # "") =>
              \A i \in 1..Len(RawDoc(run[o].doc).item) :
                 ~IsNaNDate(RawDoc(run[o].doc).item[i].pubDate)
        /\ run[o].st = "ok" =>
              \A i \in 1..Len(RawDoc(run[o].doc).item) :
                 IsNaNDate(RawDoc(run[o].doc).item[i].pubDate) =>
                    \E j \in 1..Len(run[o].xml[1].item) :
                       /\ run[o].xml[1].item[j].link = RawDoc(run[o].doc).item[i].link
                       /\ run[o].xml[1].item[j].pubDate = BuildTime

----------------------------------------------------------------------------
(* sanitizeXmlText *)

\* The characters of w stand in s from place p on.
HasAt(s, p, w) ==
    /\ p + Len(w) - 1 <= Len(s)
    /\ \A j \in 1..Len(w) : s[p + j - 1] = w[j]

NoRawChars(text) ==
    \A i \in 1..Len(text) : text[i] \notin {"&", "<", ">", "\"", "'"}

\* The places of the result where what stands for character p of the text
\* begins.
PlacesOf(p) ==
    {q \in 1..Len(san.marks) :
        san.marks[q] = p /\ (q = 1 \/ san.marks[q - 1] # p)}

\* Sanitizing twice a text free of raw characters gives what sanitizing once
\* gives.
Idempotent ==
    (san.phase = "twice" /\ NoRawChars(san.text)) => san.twice = san.once

\* C16 as claimed: sanitizing is idempotent on texts free of the raw
\* characters, and where the text has &amp; (and does not itself read
\* &amp;amp; there) the result does not read &amp;amp; at that place.
C16_NoDoubleAmpAtPlace ==
    /\ Idempotent
    /\ san.phase \in {"once", "twice"} =>
          \A p \in 1..Len(san.text) :
             (HasAt(san.text, p, Amp) /\ ~HasAt(san.text, p, Amp \o Tail(Amp))) =>
                \A q \in PlacesOf(p) : ~HasAt(san.once, q, Amp \o Tail(Amp))

\* C16 amended: sanitizing is idempotent on texts free of the raw characters,
\* and where the text has &amp; the result has that occurrence unchanged, its
\* & not escaped again; the result reads &amp;amp; at that place only when the
\* amp; that follows is made of characters of the text itself.
C16_EntityKept ==
    /\ Idempotent
    /\ san.phase \in {"once", "twice"} =>
          \A p \in 1..Len(san.text) :
             HasAt(san.text, p, Amp) =>
                /\ Cardinality({q \in 1..Len(san.marks) : san.marks[q] = p}) = 1
                /\ \A q \in PlacesOf(p) :
                      /\ HasAt(san.once, q, Amp)
                      /\ \A j \in 1..Len(Amp) : san.marks[q + j - 1] = p + j - 1
                      /\ HasAt(san.once, q, Amp \o Tail(Amp)) =>
                            \A j \in 1..Len(Tail(Amp)) :
                               san.text[san.marks[q + Len(Amp) + j - 1]] = Tail(Amp)[j]

\* C16 witness: a text with &amp; and, before it, a bare & and an invalid
\* character has been sanitized twice.
C16_Witness ==
    /\ san.phase = "twice"
    /\ \E p \in 3..Len(san.text) :
          /\ HasAt(san.text, p, Amp)
          /\ san.text[1] = "&" /\ san.text[2] = "NUL"
          /\ HasAt(san.once, 1, Amp \o Amp)

----------------------------------------------------------------------------
(* Liveness *)

\* telegram_rss is in flight for owner o.
FetchPending(o) == run[o].st = "fetch"

\* The https.get of entry i is in flight for owner o.
GetPending(o, i) ==
    /\ run[o].st = "items"
    /\ i <= Len(run[o].items)
    /\ run[o].items[i].st = "get"

\* Every upstream fetch attempt and every download attempt of owner o
\* eventually succeeds or fails.
Settles(o) ==
    /\ []<>~FetchPending(o)
    /\ \A i \in 1..2 : []<>~GetPending(o, i)

\* A response: the document with status 200, or the error body with status 500.
IsResponse(q) ==
    \/ q.status = 200 /\ q.body # <<>> /\ q.text = ""
    \/ q.status = 500 /\ q.body = <<>> /\ q.text = "Error generating RSS feed."

\* C13: a request is answered when it arrives or is waiting for its own
\* fetch; an answer is the cached document, the fetched document or the 500
\* body, and is given once; and if every attempt of the request's fetch
\* settles, the request is eventually answered.
C13_EveryRequestAnswered ==
    /\ [](\A h \in Reqs :
            /\ req[h].st \in {"new", "fetching", "done"}
            /\ req[h].st = "done" => IsResponse(req[h])
            /\ req[h].st # "done" => req[h].status = 0 /\ req[h].body = <<>>
            /\ req[h].st = "fetching" => run[H(h)].st \in {"fetch", "fwait", "items"})
    /\ [][\A h \in Reqs : req[h].st = "done" => req'[h] = req[h]]_vars
    /\ \A h \in Reqs :
          Settles(H(h)) => ((req[h].st = "fetching") ~> (req[h].st = "done"))

\* C13 witness: a request has got the 500 body after its fetch used up its
\* retries.
C13_Witness ==
    \E h \in Reqs :
        /\ req[h].st = "done" /\ req[h].status = 500
        /\ obs.upCalls[H(h)] = Retries /\ obs.upOkAt[H(h)] = 0

\* C15: a task that has been started is never stopped; a tick ends only with
\* the next tick scheduled, and the next tick begins only from there; and,
\* timers firing and attempts settling, every tick ends and the task invokes
\* the upstream fetch again and again.
C15_TaskNeverStops ==
    /\ [][\A h \in Reqs :
            /\ timer[h].st # "none" => (timer'[h].st # "none" /\ timer'[h].ch = timer[h].ch)
            /\ (timer[h].st \in {"attempt", "backoff"} /\ timer'[h].st \notin {"attempt", "backoff"})
                  => (timer'[h].st = "idle" /\ timer'[h].delay > 0)
            /\ (timer[h].st = "idle" /\ timer'[h] # timer[h])
                  => (timer'[h].st = "attempt" /\ FetchPending(T(h))')]_vars
    /\ \A h \in Reqs :
          Settles(T(h)) =>
              /\ (timer[h].st # "none") ~> (timer[h].st = "idle")
              /\ (timer[h].st = "idle") ~> FetchPending(T(h))

\* C15 witness: a task is in its second tick or a later one, its upstream
\* fetch in flight.
C15_Witness ==
    \E h \in Reqs : obs.tickNo[h] = 2 /\ FetchPending(T(h))

----------------------------------------------------------------------------
(* C14: the request that follows a fresh answer at once *)

\* C14: a request for a channel that arrives in the step right after a
\* request for the same channel was answered with the document it fetched is
\* answered on arrival, with status 200 and the very body of that first
\* answer, without a fetch of its own; and in the step of its arrival no
\* processRssFeed invocation moves, telegram_rss is not invoked and the cache
\* is not written.
C14_SecondRequestIdentical ==
    /\ [](\A h \in Reqs :
            obs.after[h] # 0 =>
                /\ req[obs.after[h]].st = "done" /\ req[obs.after[h]].fetched
                /\ req[h].st = "done" /\ req[h].status = 200
                /\ req[h].body = req[obs.after[h]].body
                /\ ~req[h].fetched
                /\ run[H(h)] = NoRun)
    /\ [][\A h \in Reqs :
            (obs.after[h] = 0 /\ obs'.after[h] # 0) =>
                /\ run' = run
                /\ obs'.upCalls = obs.upCalls
                /\ rssCache' = rssCache]_vars

\* C14 witness: a second request has arrived right after the first one's fresh
\* answer and has been answered.
C14_Witness ==
    \E h \in Reqs :
        /\ obs.after[h] # 0 /\ obs.after[h] # h
        /\ req[h].st = "done" /\ req[h].ch = req[obs.after[h]].ch

----------------------------------------------------------------------------
(* C17: the attempts of one tick *)

\* A tick of the task of request h has ended with all its attempts failed.
Exhausted(h) == timer[h].st = "idle" /\ ~timer[h].success

\* C17: within one tick processRssFeed is invoked at most Retries times, each
\* invocation invoking telegram_rss at most Retries times, so the tick invokes
\* telegram_rss at most Retries * Retries times; the tick is exhausted exactly
\* when Retries invocations of processRssFeed have failed; and once an
\* invocation has succeeded the tick is over and invokes nothing more.
C17_TickAttempts ==
    /\ [](\A h \in Reqs :
            /\ obs.runs[h] <= Retries
            /\ obs.upCalls[T(h)] <= Retries
            /\ obs.ups[h] <= Retries * Retries
            /\ obs.ups[h] <= Retries * obs.runs[h]
            /\ obs.runFails[h] <= obs.runs[h]
            /\ Exhausted(h) <=> obs.runFails[h] = Retries
            /\ timer[h].success =>
                  /\ timer[h].st = "idle" /\ run[T(h)].st = "ok"
                  /\ obs.runFails[h] = obs.runs[h] - 1)
    /\ [][\A h \in Reqs :
            (timer[h].success /\ timer'[h].success) =>
                (obs'.runs[h] = obs.runs[h] /\ obs'.ups[h] = obs.ups[h])]_vars

\* C17 witness: a tick is exhausted after three invocations of processRssFeed
\* and nine of telegram_rss.
C17_Witness ==
    \E h \in Reqs :
        /\ Exhausted(h)
        /\ obs.runs[h] = Retries /\ obs.runFails[h] = Retries
        /\ obs.ups[h] = Retries * Retries

----------------------------------------------------------------------------
(* C18: the waits between attempts *)

\* The wait that follows the failed attempt with 0-based index i, in ms.
WaitAfter(base, i) == IF i = 0 THEN base ELSE IF i = 1 THEN 2 * base ELSE 4 * base

\* C18: whenever safeTelegramRss, downloadImage or updateRss is waiting
\* between attempts, the attempt that failed is not the last one and the wait
\* is the base delay times 2 to the power of its index: 2000 then 4000 ms
\* for the upstream fetch and the download, 1000 then 2000 ms for updateRss.
C18_BackoffWaits ==
    /\ \A o \in Owners :
          /\ run[o].st = "fwait" =>
                /\ run[o].attempt \in 0..(Retries - 2)
                /\ run[o].delay = WaitAfter(2000, run[o].attempt)
          /\ run[o].st = "items" =>
                \A i \in 1..Len(run[o].items) :
                    run[o].items[i].st = "wait" =>
                        /\ run[o].items[i].attempt \in 0..(Retries - 2)
                        /\ run[o].items[i].delay = WaitAfter(2000, run[o].items[i].attempt)
    /\ \A h \in Reqs :
          timer[h].st = "backoff" =>
              /\ timer[h].attempt \in 0..(Retries - 2)
              /\ timer[h].delay = WaitAfter(1000, timer[h].attempt)

\* C18 witness: updateRss waits 2000 ms after its second failed attempt, the
\* upstream fetch having waited between the attempts of both.
C18_Witness ==
    \E h \in Reqs :
        /\ timer[h].st = "backoff" /\ timer[h].attempt = 1 /\ timer[h].delay = 2000
        /\ obs.ups[h] = 2 * Retries

----------------------------------------------------------------------------
(* C19: tasks and cache entries *)

\* C19: the channel of every task that exists has a cache entry; a cache
\* entry, once present, stays present; and a task comes into being only in
\* the step in which the processRssFeed awaited by a request's handler
\* returned the document of that channel, which is then cached.
C19_TaskImpliesEntry ==
    /\ [](\A h \in Reqs : timer[h].st # "none" => rssCache[timer[h].ch] # <<>>)
    /\ [][\A c \in Channels : rssCache[c] # <<>> => rssCache'[c] # <<>>]_vars
    /\ [][\A h \in Reqs :
            (timer[h].st = "none" /\ timer'[h].st # "none") =>
                /\ req[h].st = "fetching" /\ req[h].fetched
                /\ run[H(h)].st \in {"fetch", "items"}
                /\ run'[H(h)].st = "ok"
                /\ run'[H(h)].ch = timer'[h].ch /\ req[h].ch = timer'[h].ch
                /\ rssCache'[timer'[h].ch] = <<[xml |-> run'[H(h)].xml[1]]>>]_vars

\* C19 witness: a task exists, started by a request whose first fetch
\* succeeded, and its channel is cached.
C19_Witness ==
    \E h \in Reqs :
        /\ timer[h].st # "none" /\ rssCache[timer[h].ch] # <<>>
        /\ req[h].fetched /\ req[h].status = 200 /\ run[H(h)].st = "ok"

----------------------------------------------------------------------------
(* C20: the first fetch of a request fails *)

\* C20: in the step in which the processRssFeed awaited by the handler of a
\* request throws, the request is answered with status 500 and the error
\* body, no task is started and the cache is not written; and no task exists
\* for the request's channel and the cache holds no entry for it, so that the
\* next request for the channel fetches again.
C20_FailedFirstFetch ==
    [][\A h \in Reqs :
          (req[h].st = "fetching" /\ req'[h].st = "done" /\ req'[h].status = 500) =>
              /\ req'[h].text = "Error generating RSS feed." /\ req'[h].body = <<>>
              /\ timer' = timer /\ timer'[h].st = "none"
              /\ rssCache' = rssCache
              /\ \A g \in Reqs : timer'[g].st # "none" => timer'[g].ch # req[h].ch
              /\ ~HandlerUsesCache(rssCache'[req[h].ch])]_vars

====
